---------------------------- MODULE Spec2Model ----------------------------
(***************************************************************************)
(* A model of the tiled parallel fragment stage of rust-softrender and of  *)
(* the typed framebuffer it writes into:                                   *)
(*   src/src/stencil.rs                     stencil arithmetic, test, op   *)
(*   src/src/geometry/coordinate.rs         coordinate <-> linear index    *)
(*   src/src/framebuffer/texturebuffer.rs   declare_texture_buffer!        *)
(*   src/src/framebuffer/attachments/depth.rs   Depth::far                 *)
(*   src/src/pipeline/stages/fragment.rs    FragmentShader::run            *)
(* Each group of variables belongs to one specification; the other groups  *)
(* stay at their idle value in it.                                         *)
(***************************************************************************)
EXTENDS Integers, Sequences, FiniteSets, TLC

VARIABLES
    \* ---- the stencil engine: one application of StencilOp::op / StencilTest::test
    sT,         \* the stencil type T: [bits, signed]
    sValue,     \* the first argument (`value`)
    sMask,      \* the second argument (`mask`)
    sCall,      \* which call was made: [fn, variant, wrap], fn = "none" before the call
    sOut,       \* what the call returned
    \* ---- Coordinate::into_index / Coordinate::from_index
    cDims,      \* the Dimensions argument
    cBuild,     \* "debug" (debug_assert! is compiled in) or "release"
    cOrig,      \* the value the round trip started from: [kind, index] or [kind, coord]
    cHave,      \* "index", "coord" or "panicked": what the last call returned
    cIndex,     \* the current linear index
    cCoord,     \* the current Coordinate
    cCalls,     \* the sequence of calls made so far
    \* ---- a texture buffer declared by declare_texture_buffer!
    tb,         \* the buffer: its colour planes, __internal_dimensions, __internal_buffer
    tbLast,     \* the last operation applied to it, with its arguments
    tbCount,    \* how many operations were applied since construction
    \* ---- FragmentShader::run
    fb,           \* the pipeline's framebuffer
    scene,        \* the primitive streams, the stencil configuration and stencil_value
    tile_size,    \* self.tile_size
    thread_count, \* pool.thread_count()
    build,        \* overflow checks of the build: "debug", "release", "unknown" until one shows
    pc,           \* where run() is: "start", "outer", "inner", "scoped", "returned", "panicked"
    xmax, ymax, x, y, next_y,   \* the tile planner's locals
    tiles,        \* the tile list
    i,            \* the shared AtomicUsize
    wpc,          \* each worker's position: "fetch", "tile" or "exit"
    wtile,        \* each worker's fetched value (its tile index)
    wprim,        \* each worker's position in the primitive streams of its tile
    claimed,      \* per tile index, the workers that fetched it, in order
    rastered,     \* per tile index, the primitives rasterized on it, in order
    writers,      \* per pixel index, the workers that visited it
    \* ---- Depth::from_scalar: one call
    dT,         \* the depth type
    dScalar,    \* the floating scalar argument: [kind, halves]
    dCall,      \* "none" before the call, "from_scalar" after it
    dOut        \* how the call ended: [kind, value], kind "value" or "panic"

stencilVars == <<sT, sValue, sMask, sCall, sOut>>
coordVars == <<cDims, cBuild, cOrig, cHave, cIndex, cCoord, cCalls>>
texVars == <<tb, tbLast, tbCount>>
runVars ==
    <<fb, scene, tile_size, thread_count, build, pc, xmax, ymax, x, y, next_y, tiles,
      i, wpc, wtile, wprim, claimed, rastered, writers>>
depthVars == <<dT, dScalar, dCall, dOut>>
vars == <<stencilVars, coordVars, texVars, runVars, depthVars>>

-----------------------------------------------------------------------------
(* Bounds of the model *)

\* 16-bit stencil values are sampled within this distance of MIN, 0 and MAX.
SampleRadius == 2
\* Largest width and height of a Dimensions value.
MaxDim == 3
\* Number of bits u32 is modelled with (TLC's integers end at 2^31).
U32Bits == 8
\* Largest number of worker threads of the pool.
MaxThreads == 2
\* Longest tile list the planner is followed to.
MaxTiles == 4
\* Largest width and height of the texture buffer that is written and cleared.
MaxTexDim == 2
\* Longest sequence of operations applied to that texture buffer.
MaxTexOps == 2

-----------------------------------------------------------------------------
(* Machine integers *)

Pow2(n) == 2 ^ n

\* The integer types impl_stencil! is instantiated for that fit TLC's
\* integers; u8 and i8 are enumerated in full, the 16-bit types are sampled.
U8 == [bits |-> 8, signed |-> FALSE]
I8 == [bits |-> 8, signed |-> TRUE]
U16 == [bits |-> 16, signed |-> FALSE]
I16 == [bits |-> 16, signed |-> TRUE]
StencilTypes == {U8, I8, U16, I16}

MinValue(T) == IF T.signed THEN 0 - Pow2(T.bits - 1) ELSE 0
MaxValue(T) == IF T.signed THEN Pow2(T.bits - 1) - 1 ELSE Pow2(T.bits) - 1
ValuesOf(T) == MinValue(T) .. MaxValue(T)

\* The two's complement bit pattern of v, read as an unsigned number, and back.
ToBits(T, v) == IF v < 0 THEN v + Pow2(T.bits) ELSE v
FromBits(T, u) == IF T.signed /\ u >= Pow2(T.bits - 1) THEN u - Pow2(T.bits) ELSE u

RECURSIVE FlipBits(_, _)
FlipBits(u, bits) ==
    IF bits = 0 THEN 0
    ELSE (1 - (u % 2)) + 2 * FlipBits(u \div 2, bits - 1)

-----------------------------------------------------------------------------
(* src/src/stencil.rs: impl_stencil! *)

Stencil_zero(T) == 0
Stencil_one(T) == 1
Stencil_default(T) == 0

\* !self
Stencil_not(T, v) == FromBits(T, FlipBits(ToBits(T, v), T.bits))

wrapping_add(T, a, b) == FromBits(T, (ToBits(T, a) + ToBits(T, b)) % Pow2(T.bits))

wrapping_sub(T, a, b) ==
    FromBits(T, (ToBits(T, a) + Pow2(T.bits) - ToBits(T, b)) % Pow2(T.bits))

saturating_add(T, a, b) ==
    IF a + b > MaxValue(T) THEN MaxValue(T)
    ELSE IF a + b < MinValue(T) THEN MinValue(T) ELSE a + b

saturating_sub(T, a, b) ==
    IF a - b > MaxValue(T) THEN MaxValue(T)
    ELSE IF a - b < MinValue(T) THEN MinValue(T) ELSE a - b

(* src/src/stencil.rs: enum StencilTest, StencilTest::test *)

StencilTestVariants ==
    {"Always", "Never", "LessThan", "GreaterThan", "LessThanEq", "GreaterThanEq",
     "Equal", "NotEqual"}

\* StencilTest::test with the strict and the non-strict comparisons exchanged
StencilTest_test_StrictSwapped(variant, value, mask) ==
    CASE variant = "Always" -> TRUE
      [] variant = "Never" -> FALSE
      [] variant = "LessThan" -> mask <= value
      [] variant = "LessThanEq" -> mask < value
      [] variant = "GreaterThan" -> mask >= value
      [] variant = "GreaterThanEq" -> mask > value
      [] variant = "Equal" -> mask = value
      [] variant = "NotEqual" -> mask # value

\* StencilTest::test with the bodies of Equal and NotEqual exchanged
StencilTest_test_EqualNegated(variant, value, mask) ==
    CASE variant = "Always" -> TRUE
      [] variant = "Never" -> FALSE
      [] variant = "LessThan" -> mask < value
      [] variant = "LessThanEq" -> mask <= value
      [] variant = "GreaterThan" -> mask > value
      [] variant = "GreaterThanEq" -> mask >= value
      [] variant = "Equal" -> mask # value
      [] variant = "NotEqual" -> mask = value

StencilTest_test(variant, value, mask) ==
    CASE variant = "Always" -> TRUE
      [] variant = "Never" -> FALSE
      [] variant = "LessThan" -> mask < value
      [] variant = "LessThanEq" -> mask <= value
      [] variant = "GreaterThan" -> mask > value
      [] variant = "GreaterThanEq" -> mask >= value
      [] variant = "Equal" -> mask = value
      [] variant = "NotEqual" -> mask # value

(* src/src/stencil.rs: enum StencilOp, StencilOp::op *)

StencilOpVariants ==
    {[variant |-> v, wrap |-> FALSE] : v \in {"Keep", "Invert", "Zero", "Replace"}}
    \cup {[variant |-> v, wrap |-> w] : v \in {"Increment", "Decrement"}, w \in BOOLEAN}

\* StencilOp::op with value and mask confused in Replace
StencilOp_op_ReplaceKeeps(T, o, value, mask) ==
    CASE o.variant = "Keep" -> value
      [] o.variant = "Invert" -> Stencil_not(T, value)
      [] o.variant = "Zero" -> Stencil_zero(T)
      [] o.variant = "Replace" -> value
      [] o.variant = "Increment" /\ o.wrap -> wrapping_add(T, value, Stencil_one(T))
      [] o.variant = "Decrement" /\ o.wrap -> wrapping_sub(T, value, Stencil_one(T))
      [] o.variant = "Increment" /\ ~o.wrap -> saturating_add(T, value, Stencil_one(T))
      [] o.variant = "Decrement" /\ ~o.wrap -> saturating_sub(T, value, Stencil_one(T))

\* StencilOp::op with the wrap flag read the wrong way round
StencilOp_op_WrapSwapped(T, o, value, mask) ==
    CASE o.variant = "Keep" -> value
      [] o.variant = "Invert" -> Stencil_not(T, value)
      [] o.variant = "Zero" -> Stencil_zero(T)
      [] o.variant = "Replace" -> mask
      [] o.variant = "Increment" /\ ~o.wrap -> wrapping_add(T, value, Stencil_one(T))
      [] o.variant = "Decrement" /\ ~o.wrap -> wrapping_sub(T, value, Stencil_one(T))
      [] o.variant = "Increment" /\ o.wrap -> saturating_add(T, value, Stencil_one(T))
      [] o.variant = "Decrement" /\ o.wrap -> saturating_sub(T, value, Stencil_one(T))

StencilOp_op(T, o, value, mask) ==
    CASE o.variant = "Keep" -> value
      [] o.variant = "Invert" -> Stencil_not(T, value)
      [] o.variant = "Zero" -> Stencil_zero(T)
      [] o.variant = "Replace" -> mask
      [] o.variant = "Increment" /\ o.wrap -> wrapping_add(T, value, Stencil_one(T))
      [] o.variant = "Decrement" /\ o.wrap -> wrapping_sub(T, value, Stencil_one(T))
      [] o.variant = "Increment" /\ ~o.wrap -> saturating_add(T, value, Stencil_one(T))
      [] o.variant = "Decrement" /\ ~o.wrap -> saturating_sub(T, value, Stencil_one(T))

-----------------------------------------------------------------------------
(* The stencil engine's specification: the arguments are drawn, then one   *)
(* call of op or test is made on them.                                     *)

Near(c, T) == {v \in (c - SampleRadius) .. (c + SampleRadius) : v \in ValuesOf(T)}

SampleValues(T) ==
    IF T.bits = 8 THEN ValuesOf(T)
    ELSE Near(MinValue(T), T) \cup Near(0, T) \cup Near(MaxValue(T), T)

SampleMasks(T) == Near(MinValue(T), T) \cup Near(0, T) \cup Near(MaxValue(T), T)

NoCall == [fn |-> "none", variant |-> "none", wrap |-> FALSE]

StencilIdle ==
    /\ sT = U8
    /\ sValue = 0
    /\ sMask = 0
    /\ sCall = NoCall
    /\ sOut = 0

StencilInit ==
    /\ sT \in StencilTypes
    /\ sValue \in SampleValues(sT)
    /\ sMask \in SampleMasks(sT)
    /\ sCall = NoCall
    /\ sOut = 0

CallOp ==
    /\ sCall.fn = "none"
    /\ \E o \in StencilOpVariants :
        /\ sOut' = StencilOp_op(sT, o, sValue, sMask)
        /\ sCall' = [fn |-> "op", variant |-> o.variant, wrap |-> o.wrap]
    /\ UNCHANGED <<sT, sValue, sMask, coordVars, texVars, runVars, depthVars>>

CallTest ==
    /\ sCall.fn = "none"
    /\ \E t \in StencilTestVariants :
        /\ sOut' = StencilTest_test(t, sValue, sMask)
        /\ sCall' = [fn |-> "test", variant |-> t, wrap |-> FALSE]
    /\ UNCHANGED <<sT, sValue, sMask, coordVars, texVars, runVars, depthVars>>

-----------------------------------------------------------------------------
(* src/src/geometry/coordinate.rs *)

Coordinate_new(cx, cy) == [x |-> cx, y |-> cy]

\* Dimensions::area (geometry/dimensions.rs is not among the sources)
area(d) == d.width * d.height

\* into_index with the row stride taken from the height
into_index_HeightStride(c, d, b) ==
    IF b = "debug" /\ ~(c.x < d.width /\ c.y < d.height)
    THEN [ok |-> FALSE, index |-> 0]
    ELSE [ok |-> TRUE, index |-> c.x + c.y * d.height]

\* into_index: "ok" with the index, or "panic" when a debug_assert! fails
into_index(c, d, b) ==
    IF b = "debug" /\ ~(c.x < d.width /\ c.y < d.height)
    THEN [ok |-> FALSE, index |-> 0]
    ELSE [ok |-> TRUE, index |-> c.x + c.y * d.width]

\* from_index: "ok" with the coordinate, or a panic on the remainder by zero
from_index(index, d) ==
    IF d.width = 0 THEN [ok |-> FALSE, coord |-> Coordinate_new(0, 0)]
    ELSE LET cx == index % d.width
             cy == (index - cx) \div d.width
         IN [ok |-> TRUE, coord |-> Coordinate_new(cx, cy)]

AllDimensions == [width : 0 .. MaxDim, height : 0 .. MaxDim]

CoordIdle ==
    /\ cDims = [width |-> 0, height |-> 0]
    /\ cBuild = "release"
    /\ cOrig = [kind |-> "none"]
    /\ cHave = "none"
    /\ cIndex = 0
    /\ cCoord = Coordinate_new(0, 0)
    /\ cCalls = <<>>

\* The round trip starts from an index below the area or one past it, or from
\* a coordinate inside the dimensions or one step outside them.
CoordInit ==
    /\ cDims \in AllDimensions
    /\ cBuild \in {"debug", "release"}
    /\ cCalls = <<>>
    /\ \/ /\ cIndex \in 0 .. area(cDims)
          /\ cCoord = Coordinate_new(0, 0)
          /\ cOrig = [kind |-> "index", index |-> cIndex]
          /\ cHave = "index"
       \/ /\ cCoord \in [x : 0 .. cDims.width, y : 0 .. cDims.height]
          /\ cIndex = 0
          /\ cOrig = [kind |-> "coord", coord |-> cCoord]
          /\ cHave = "coord"

CallFromIndex ==
    /\ cHave = "index"
    /\ Len(cCalls) < 2
    /\ LET r == from_index(cIndex, cDims)
       IN /\ cHave' = IF r.ok THEN "coord" ELSE "panicked"
          /\ cCoord' = IF r.ok THEN r.coord ELSE cCoord
    /\ cCalls' = Append(cCalls, "from_index")
    /\ UNCHANGED <<cDims, cBuild, cOrig, cIndex, stencilVars, texVars, runVars, depthVars>>

CallIntoIndex ==
    /\ cHave = "coord"
    /\ Len(cCalls) < 2
    /\ LET r == into_index(cCoord, cDims, cBuild)
       IN /\ cHave' = IF r.ok THEN "index" ELSE "panicked"
          /\ cIndex' = IF r.ok THEN r.index ELSE cIndex
    /\ cCalls' = Append(cCalls, "into_index")
    /\ UNCHANGED <<cDims, cBuild, cOrig, cCoord, stencilVars, texVars, runVars, depthVars>>

-----------------------------------------------------------------------------
(* src/src/framebuffer/attachments/depth.rs and                            *)
(* src/src/framebuffer/texturebuffer.rs: declare_texture_buffer!           *)

\* The attachments of the modelled buffer: an i8 depth, a u8 stencil, and
\* two colour planes (the macro takes one or more `pub $color_name: $color_ty`).
DepthType == I8
StencilType == U8
PlaneNames == {"color", "normal"}

\* far() as the largest value of the type, as a smaller-is-closer buffer has it
Depth_far_MaxValue(T) == MaxValue(T)

\* impl_depth_primitives!: far() is the minimum value of the type
Depth_far(T) == MinValue(T)

\* Color::empty() of a plane's colour type; colours are small numbers
Color_empty == 0

\* new()
new ==
    [planes |-> [n \in PlaneNames |-> <<>>],
     internal_dimensions |-> [width |-> 0, height |-> 0],
     internal_buffer |-> <<>>]

\* with_dimensions that allocates one row only
with_dimensions_OneRow(d) ==
    LET pixels == d.width
    IN [planes |-> [n \in PlaneNames |-> [k \in 1 .. pixels |-> Color_empty]],
        internal_dimensions |-> d,
        internal_buffer |->
            [k \in 1 .. pixels |-> <<Depth_far(DepthType), Stencil_default(StencilType)>>]]

\* with_dimensions(dimensions)
with_dimensions(d) ==
    LET pixels == area(d)
    IN [planes |-> [n \in PlaneNames |-> [k \in 1 .. pixels |-> Color_empty]],
        internal_dimensions |-> d,
        internal_buffer |->
            [k \in 1 .. pixels |-> <<Depth_far(DepthType), Stencil_default(StencilType)>>]]

\* HasDimensions::dimensions
dimensions_of(buf) == buf.internal_dimensions

\* PixelRead::get_pixel_unchecked: the tuple of the planes' cells at index
get_pixel_unchecked(buf, index) == [n \in PlaneNames |-> buf.planes[n][index + 1]]

\* set_pixel_unchecked that stores the tuple's first component in every plane
set_pixel_unchecked_FirstComponent(buf, index, color) ==
    [buf EXCEPT !.planes = [n \in PlaneNames |-> [buf.planes[n] EXCEPT ![index + 1] = color.color]]]

\* PixelWrite::set_pixel_unchecked: each component goes to its own plane
set_pixel_unchecked(buf, index, color) ==
    [buf EXCEPT !.planes = [n \in PlaneNames |-> [buf.planes[n] EXCEPT ![index + 1] = color[n]]]]

\* get_depth_unchecked that reads the second field of the pair
get_depth_unchecked_SecondField(buf, index) == buf.internal_buffer[index + 1][2]

\* UnsafeFramebuffer::get_depth_unchecked
get_depth_unchecked(buf, index) == buf.internal_buffer[index + 1][1]

set_depth_unchecked(buf, index, depth) ==
    [buf EXCEPT !.internal_buffer[index + 1][1] = depth]

get_stencil_unchecked(buf, index) == buf.internal_buffer[index + 1][2]

set_stencil_unchecked(buf, index, stencil) ==
    [buf EXCEPT !.internal_buffer[index + 1][2] = stencil]

\* Framebuffer::clear that overwrites the colours and the depth only
clear_KeepsStencil(buf, color) ==
    [buf EXCEPT
        !.planes = [n \in PlaneNames |-> [k \in DOMAIN buf.planes[n] |-> color[n]]],
        !.internal_buffer =
            [k \in DOMAIN buf.internal_buffer |->
                <<Depth_far(DepthType), buf.internal_buffer[k][2]>>]]

\* Framebuffer::clear
clear(buf, color) ==
    [buf EXCEPT
        !.planes = [n \in PlaneNames |-> [k \in DOMAIN buf.planes[n] |-> color[n]]],
        !.internal_buffer =
            [k \in DOMAIN buf.internal_buffer |->
                <<Depth_far(DepthType), Stencil_default(StencilType)>>]]

-----------------------------------------------------------------------------
(* The texture buffer's specification: a buffer is constructed, then       *)
(* written and cleared through its unchecked accessors and clear, with     *)
(* indices below its area (the accessors' contract).                       *)

\* The values the operations are called with.
ColorTuples ==
    {[color |-> 0, normal |-> 0], [color |-> 1, normal |-> 2], [color |-> 2, normal |-> 1]}
DepthSamples == {Depth_far(DepthType), 0, 1}
StencilSamples == {0, 1, MaxValue(StencilType)}

TexDimensions == [width : 0 .. MaxTexDim, height : 0 .. MaxTexDim]

NoOp == [op |-> "none"]

TexIdle ==
    /\ tb = new
    /\ tbLast = NoOp
    /\ tbCount = 0

TexInit ==
    /\ \/ tb = new
       \/ \E d \in TexDimensions : tb = with_dimensions(d)
    /\ tbLast = NoOp
    /\ tbCount = 0

TexIndices == 0 .. (Len(tb.internal_buffer) - 1)

SetPixel ==
    /\ tbCount < MaxTexOps
    /\ \E index \in TexIndices, c \in ColorTuples :
        /\ tb' = set_pixel_unchecked(tb, index, c)
        /\ tbLast' = [op |-> "set_pixel", index |-> index, color |-> c, before |-> tb]
    /\ tbCount' = tbCount + 1
    /\ UNCHANGED <<stencilVars, coordVars, runVars, depthVars>>

SetDepth ==
    /\ tbCount < MaxTexOps
    /\ \E index \in TexIndices, d \in DepthSamples :
        /\ tb' = set_depth_unchecked(tb, index, d)
        /\ tbLast' = [op |-> "set_depth", index |-> index, depth |-> d, before |-> tb]
    /\ tbCount' = tbCount + 1
    /\ UNCHANGED <<stencilVars, coordVars, runVars, depthVars>>

SetStencil ==
    /\ tbCount < MaxTexOps
    /\ \E index \in TexIndices, v \in StencilSamples :
        /\ tb' = set_stencil_unchecked(tb, index, v)
        /\ tbLast' = [op |-> "set_stencil", index |-> index, stencil |-> v, before |-> tb]
    /\ tbCount' = tbCount + 1
    /\ UNCHANGED <<stencilVars, coordVars, runVars, depthVars>>

Clear ==
    /\ tbCount < MaxTexOps
    /\ \E c \in ColorTuples :
        /\ tb' = clear(tb, c)
        /\ tbLast' = [op |-> "clear", color |-> c, before |-> tb]
    /\ tbCount' = tbCount + 1
    /\ UNCHANGED <<stencilVars, coordVars, runVars, depthVars>>

-----------------------------------------------------------------------------
(* The per-pixel pipeline and the rasterizers (pipeline/rasterization.rs   *)
(* is not among the sources; they follow the specification's sections 4.7  *)
(* and 4.8).                                                               *)

\* A primitive is the set of pixels it covers, a depth, and what the
\* fragment function returns for it (Fragment::Discard or Fragment::Color).
\* The shapes are given relative to the framebuffer's dimensions; a
\* primitive covers pixels of the framebuffer only.
Surface(d) == [x : 0 .. d.width - 1, y : 0 .. d.height - 1]

Cover(shape, d) ==
    CASE shape = "quad" -> Surface(d)
      [] shape = "corner" -> {c \in Surface(d) : c.x + c.y <= 1}
      [] shape = "lower_right" -> {c \in Surface(d) : c.x >= 1 /\ c.y >= 1}
      [] shape = "point" -> {c \in Surface(d) : c.x = 1 /\ c.y = 1}

Red == [color |-> 1, normal |-> 2]
Blue == [color |-> 2, normal |-> 1]

Prim(shape, depth, color) ==
    [shape |-> shape, depth |-> depth, discard |-> FALSE, color |-> color]
Discarded(shape, depth) ==
    [shape |-> shape, depth |-> depth, discard |-> TRUE, color |-> Red]

\* Blend::blend with full coverage: the fragment's colour replaces the stored one
Blend(c, stored) == c

\* Section 4.8: stencil test, depth test, fragment function, blend, write.
\* The result is what the pipeline leaves in the cells of the index: the
\* colour and the depth change only when the fragment survives the three
\* steps, the stencil op is applied on every path.
PixelPipeline(buf, index, prim, st) ==
    LET s == get_stencil_unchecked(buf, index)
        stored == get_pixel_unchecked(buf, index)
        written ==
            /\ StencilTest_test(st.test, st.value, s)
            /\ prim.depth > get_depth_unchecked(buf, index)
            /\ ~prim.discard
    IN [color |-> IF written THEN Blend(prim.color, stored) ELSE stored,
        depth |-> IF written THEN prim.depth ELSE get_depth_unchecked(buf, index),
        stencil |-> StencilOp_op(StencilType, st.op, s, st.value)]

\* Section 4.7: the pixels of a primitive a rasterizer visits in a tile,
\* the tile read as [min.x, max.x) x [min.y, max.y)
TilePixels(tile, prim, d) ==
    {into_index(c, d, "release").index :
        c \in {e \in Cover(prim.shape, d) :
                 /\ tile[1].x <= e.x /\ e.x < tile[2].x
                 /\ tile[1].y <= e.y /\ e.y < tile[2].y}}

\* The pixel pipeline has run on every pixel of S. The pipeline at an index
\* reads and writes the cells of that index only, so each visited cell is
\* the one the pipeline leaves there, whatever the order of the visits.
VisitPixels(buf, S, prim, st) ==
    [buf EXCEPT
        !.planes =
            [n \in PlaneNames |->
                [k \in {j + 1 : j \in S} |->
                    PixelPipeline(buf, k - 1, prim, st).color[n]] @@ buf.planes[n]],
        !.internal_buffer =
            [k \in {j + 1 : j \in S} |->
                <<PixelPipeline(buf, k - 1, prim, st).depth,
                  PixelPipeline(buf, k - 1, prim, st).stencil>>] @@ buf.internal_buffer]

\* rasterize_triangle / rasterize_line / rasterize_point on one tile
Rasterize(buf, tile, prim, st) ==
    VisitPixels(buf, TilePixels(tile, prim, dimensions_of(buf)), prim, st)

-----------------------------------------------------------------------------
(* src/src/pipeline/stages/fragment.rs: FragmentShader::run *)

DEFAULT_TILE_SIZE == 128

U32Modulus == Pow2(U32Bits)
U32Max == U32Modulus - 1
Overflows(v) == v < 0 \/ v > U32Max
WrapU32(v) == (v + U32Modulus) % U32Modulus

\* numeric::utils::min
min(a, b) == IF a < b THEN a ELSE b

\* The inputs of run(): what the vertex stage and the pipeline hand over.
\* kind is the primitive type T; indexed stands for mesh.indices with
\* indexed_vertices, generated for generated_primitives.
StencilOff == [test |-> "Always", op |-> [variant |-> "Keep", wrap |-> FALSE], value |-> 0]

\* depth occlusion: a quad, a farther primitive over part of it, a nearer point
DepthScene ==
    [kind |-> "triangle",
     indexed |-> <<Prim("quad", 0, Red)>>,
     generated |-> [tris |-> <<Prim("lower_right", -1, Blue)>>,
                    lines |-> <<>>,
                    points |-> <<Prim("point", 1, Blue)>>],
     stencil |-> StencilOff,
     preload |-> "none"]

\* stencil mask: only the left half holds the reference value
MaskScene ==
    [kind |-> "point",
     indexed |-> <<Prim("quad", 0, Blue)>>,
     generated |-> [tris |-> <<>>, lines |-> <<Discarded("corner", 1)>>, points |-> <<>>],
     stencil |-> [test |-> "Equal", op |-> [variant |-> "Keep", wrap |-> FALSE], value |-> 1],
     preload |-> "left"]

\* every visit inverts the stencil cell, so every second visit is rejected
InvertScene ==
    [kind |-> "line",
     indexed |-> <<Prim("quad", 1, Blue)>>,
     generated |-> [tris |-> <<Prim("quad", 0, Red)>>, lines |-> <<>>, points |-> <<>>],
     stencil |-> [test |-> "Equal", op |-> [variant |-> "Invert", wrap |-> FALSE], value |-> 0],
     preload |-> "none"]

Scenes == {DepthScene, MaskScene, InvertScene}

\* The order in which run() hands the primitives of the streams to the
\* rasterizers for one tile (lines 268-311).
PrimitiveOrder(sc) ==
    (IF sc.kind = "triangle" THEN sc.indexed ELSE <<>>)
    \o sc.generated.tris
    \o (IF sc.kind = "line" THEN sc.indexed ELSE <<>>)
    \o sc.generated.lines
    \o (IF sc.kind = "point" THEN sc.indexed ELSE <<>>)
    \o sc.generated.points

\* The framebuffer run() starts from: constructed with the dimensions, its
\* stencil cells preloaded as the scene says.
RECURSIVE Preload(_, _)
Preload(buf, S) ==
    IF S = {} THEN buf
    ELSE LET index == CHOOSE k \in S : \A j \in S : k <= j
         IN Preload(set_stencil_unchecked(buf, index, 1), S \ {index})

InitialFb(sc, d) ==
    IF sc.preload = "left"
    THEN Preload(with_dimensions(d),
                 {into_index(c, d, "release").index : c \in {e \in Surface(d) : e.x < d.width \div 2}})
    ELSE with_dimensions(d)

\* The tile sizes run() is called with: the default, the smallest and the
\* largest extents, and tiles that are wider than high and higher than wide.
TileExtents == {0, 1, 2, DEFAULT_TILE_SIZE, U32Max}
TileSizes ==
    {[width |-> a, height |-> a] : a \in TileExtents}
        \cup {[width |-> 1, height |-> 2], [width |-> 2, height |-> 1]}

RunIdle ==
    /\ fb = new
    /\ scene = [kind |-> "none"]
    /\ tile_size = [width |-> DEFAULT_TILE_SIZE, height |-> DEFAULT_TILE_SIZE]
    /\ thread_count = 0
    /\ build = "unknown"
    /\ pc = "idle"
    /\ xmax = 0 /\ ymax = 0 /\ x = 0 /\ y = 0 /\ next_y = 0
    /\ tiles = <<>>
    /\ i = 0
    /\ wpc = <<>> /\ wtile = <<>> /\ wprim = <<>>
    /\ claimed = <<>> /\ rastered = <<>> /\ writers = <<>>

RunInit ==
    /\ scene \in Scenes
    /\ \E d \in AllDimensions : fb = InitialFb(scene, d)
    /\ tile_size \in TileSizes
    /\ thread_count \in {1, MaxThreads}
    /\ build = "unknown"
    /\ pc = "start"
    /\ xmax = 0 /\ ymax = 0 /\ x = 0 /\ y = 0 /\ next_y = 0
    /\ tiles = <<>>
    /\ i = 0
    /\ wpc = <<>> /\ wtile = <<>> /\ wprim = <<>>
    /\ claimed = <<>> /\ rastered = <<>>
    /\ writers = [k \in 0 .. area(dimensions_of(fb)) - 1 |-> {}]

otherVars == <<stencilVars, coordVars, texVars, depthVars>>

\* An arithmetic step on u32 whose exact results are `raws`: a build with
\* overflow checks panics when one is out of range, a build without them
\* goes on with the wrapped values; without overflow both go on.
Panics(raws) ==
    /\ \E r \in raws : Overflows(r)
    /\ build # "release"
    /\ build' = "debug"
    /\ pc' = "panicked"

GoesOn(raws) ==
    /\ (\E r \in raws : Overflows(r)) => build # "debug"
    /\ build' = IF \E r \in raws : Overflows(r) THEN "release" ELSE build

\* lines 186-194: dimensions, xmax, ymax, y = 0
PlanStart ==
    /\ pc = "start"
    /\ LET d == dimensions_of(fb)
           raws == {d.width - 1, d.height - 1}
       IN \/ /\ Panics(raws)
             /\ UNCHANGED <<xmax, ymax>>
          \/ /\ GoesOn(raws)
             /\ xmax' = WrapU32(d.width - 1)
             /\ ymax' = WrapU32(d.height - 1)
             /\ pc' = "outer"
    /\ y' = 0
    /\ UNCHANGED <<fb, scene, tile_size, thread_count, x, next_y, tiles, i, wpc, wtile,
                   wprim, claimed, rastered, writers, otherVars>>

\* lines 196-199, and lines 218-244 once the outer loop is left: the stencil
\* configuration is fetched, the counter is set to zero and thread_count
\* tasks are handed to the pool
PlanOuter ==
    /\ pc = "outer"
    /\ IF y < ymax
       THEN LET raw == y + tile_size.height
            IN \/ /\ Panics({raw})
                  /\ UNCHANGED <<x, next_y>>
               \/ /\ GoesOn({raw})
                  /\ x' = 0
                  /\ next_y' = min(WrapU32(raw), ymax)
                  /\ pc' = "inner"
            /\ UNCHANGED <<i, wpc, wtile, wprim, claimed, rastered>>
       ELSE /\ pc' = "scoped"
            /\ i' = 0
            /\ wpc' = [w \in 1 .. thread_count |-> "fetch"]
            /\ wtile' = [w \in 1 .. thread_count |-> 0]
            /\ wprim' = [w \in 1 .. thread_count |-> 0]
            /\ claimed' = [t \in 1 .. Len(tiles) |-> <<>>]
            /\ rastered' = [t \in 1 .. Len(tiles) |-> <<>>]
            /\ UNCHANGED <<build, x, next_y>>
    /\ UNCHANGED <<fb, scene, tile_size, thread_count, xmax, ymax, y, tiles, writers,
                   otherVars>>

\* the inner loop that advances x by one pixel instead of to next_x
PlanInner_StepsByOne ==
    /\ pc = "inner"
    /\ IF x < xmax
       THEN LET raw == x + tile_size.width
            IN \/ /\ Panics({raw})
                  /\ UNCHANGED <<x, tiles>>
               \/ /\ GoesOn({raw})
                  /\ Len(tiles) < MaxTiles
                  /\ tiles' = Append(tiles, <<Coordinate_new(x, y),
                                              Coordinate_new(min(WrapU32(raw), xmax), next_y)>>)
                  /\ x' = x + 1
                  /\ pc' = "inner"
            /\ y' = y
       ELSE /\ y' = next_y
            /\ pc' = "outer"
            /\ UNCHANGED <<build, x, tiles>>
    /\ UNCHANGED <<fb, scene, tile_size, thread_count, xmax, ymax, next_y, i, wpc, wtile,
                   wprim, claimed, rastered, writers, otherVars>>

\* lines 201-212
PlanInner ==
    /\ pc = "inner"
    /\ IF x < xmax
       THEN LET raw == x + tile_size.width
                next_x == min(WrapU32(raw), xmax)
            IN \/ /\ Panics({raw})
                  /\ UNCHANGED <<x, tiles>>
               \/ /\ GoesOn({raw})
                  /\ Len(tiles) < MaxTiles
                  /\ tiles' = Append(tiles, <<Coordinate_new(x, y),
                                              Coordinate_new(next_x, next_y)>>)
                  /\ x' = next_x
                  /\ pc' = "inner"
            /\ y' = y
       ELSE /\ y' = next_y
            /\ pc' = "outer"
            /\ UNCHANGED <<build, x, tiles>>
    /\ UNCHANGED <<fb, scene, tile_size, thread_count, xmax, ymax, next_y, i, wpc, wtile,
                   wprim, claimed, rastered, writers, otherVars>>

planVars == <<build, xmax, ymax, x, y, next_y, tiles>>
inputVars == <<scene, tile_size, thread_count>>

\* the loop with `i <= tiles.len()`
FetchAdd_OffByOne(w) ==
    /\ pc = "scoped"
    /\ wpc[w] = "fetch"
    /\ i' = i + 1
    /\ wtile' = [wtile EXCEPT ![w] = i]
    /\ IF i <= Len(tiles)
       THEN /\ wpc' = [wpc EXCEPT ![w] = "tile"]
            /\ wprim' = [wprim EXCEPT ![w] = 1]
            /\ claimed' = IF i < Len(tiles)
                          THEN [claimed EXCEPT ![i + 1] = Append(@, w)] ELSE claimed
       ELSE /\ wpc' = [wpc EXCEPT ![w] = "exit"]
            /\ UNCHANGED <<wprim, claimed>>
    /\ UNCHANGED <<fb, pc, rastered, writers, planVars, inputVars, otherVars>>

\* the loop with `continue` where the break belongs
FetchAdd_NoBreak(w) ==
    /\ pc = "scoped"
    /\ wpc[w] = "fetch"
    /\ i' = IF i < Len(tiles) THEN i + 1 ELSE i
    /\ wtile' = [wtile EXCEPT ![w] = i]
    /\ IF i < Len(tiles)
       THEN /\ wpc' = [wpc EXCEPT ![w] = "tile"]
            /\ wprim' = [wprim EXCEPT ![w] = 1]
            /\ claimed' = [claimed EXCEPT ![i + 1] = Append(@, w)]
       ELSE UNCHANGED <<wpc, wprim, claimed>>
    /\ UNCHANGED <<fb, pc, rastered, writers, planVars, inputVars, otherVars>>

\* the loop using the counter's value after the addition
FetchAdd_NewValue(w) ==
    /\ pc = "scoped"
    /\ wpc[w] = "fetch"
    /\ i' = i + 1
    /\ wtile' = [wtile EXCEPT ![w] = i + 1]
    /\ IF i + 1 < Len(tiles)
       THEN /\ wpc' = [wpc EXCEPT ![w] = "tile"]
            /\ wprim' = [wprim EXCEPT ![w] = 1]
            /\ claimed' = [claimed EXCEPT ![i + 2] = Append(@, w)]
       ELSE /\ wpc' = [wpc EXCEPT ![w] = "exit"]
            /\ UNCHANGED <<wprim, claimed>>
    /\ UNCHANGED <<fb, pc, rastered, writers, planVars, inputVars, otherVars>>

\* lines 250-254 and 312-314: i.fetch_add(1, Relaxed), then the tile or the break
FetchAdd(w) ==
    /\ pc = "scoped"
    /\ wpc[w] = "fetch"
    /\ i' = i + 1
    /\ wtile' = [wtile EXCEPT ![w] = i]
    /\ IF i < Len(tiles)
       THEN /\ wpc' = [wpc EXCEPT ![w] = "tile"]
            /\ wprim' = [wprim EXCEPT ![w] = 1]
            /\ claimed' = [claimed EXCEPT ![i + 1] = Append(@, w)]
       ELSE /\ wpc' = [wpc EXCEPT ![w] = "exit"]
            /\ UNCHANGED <<wprim, claimed>>
    /\ UNCHANGED <<fb, pc, rastered, writers, planVars, inputVars, otherVars>>

\* lines 268-311: the next primitive of the streams is rasterized on the tile
RasterizeNext(w) ==
    /\ pc = "scoped"
    /\ wpc[w] = "tile"
    /\ wprim[w] <= Len(PrimitiveOrder(scene))
    /\ \E tile \in {tiles[wtile[w] + 1]}, prim \in {PrimitiveOrder(scene)[wprim[w]]} :
           \E visited \in {TilePixels(tile, prim, dimensions_of(fb))} :
               /\ fb' = Rasterize(fb, tile, prim, scene.stencil)
               /\ writers' = [k \in DOMAIN writers |->
                                 IF k \in visited THEN writers[k] \cup {w} ELSE writers[k]]
    /\ rastered' = [rastered EXCEPT ![wtile[w] + 1] = Append(@, wprim[w])]
    /\ wprim' = [wprim EXCEPT ![w] = @ + 1]
    /\ UNCHANGED <<pc, i, wpc, wtile, claimed, planVars, inputVars, otherVars>>

\* the loop starts over once the first stream is exhausted
TileDone_AfterFirstStream(w) ==
    /\ pc = "scoped"
    /\ wpc[w] = "tile"
    /\ wprim[w] > 1
    /\ wpc' = [wpc EXCEPT ![w] = "fetch"]
    /\ UNCHANGED <<fb, pc, i, wtile, wprim, claimed, rastered, writers, planVars,
                   inputVars, otherVars>>

\* line 315: the streams are exhausted, the loop starts over
TileDone(w) ==
    /\ pc = "scoped"
    /\ wpc[w] = "tile"
    /\ wprim[w] > Len(PrimitiveOrder(scene))
    /\ wpc' = [wpc EXCEPT ![w] = "fetch"]
    /\ UNCHANGED <<fb, pc, i, wtile, wprim, claimed, rastered, writers, planVars,
                   inputVars, otherVars>>

\* line 318: pool.scoped returns once every task has ended
Join ==
    /\ pc = "scoped"
    /\ \A w \in DOMAIN wpc : wpc[w] = "exit"
    /\ pc' = "returned"
    /\ UNCHANGED <<fb, i, wpc, wtile, wprim, claimed, rastered, writers, planVars,
                   inputVars, otherVars>>

WorkerStep(w) == FetchAdd(w) \/ RasterizeNext(w) \/ TileDone(w)

-----------------------------------------------------------------------------
(* src/src/framebuffer/attachments/depth.rs: Depth::from_scalar *)

\* The depth types of the model, of impl_depth_primitives!(i8, ..., u8, ...).
DepthTypes == {I8, U8}

\* A floating scalar: a finite number of halves (halves / 2), or NaN, or an
\* infinity.
Finite(h) == [kind |-> "finite", halves |-> h]
NaN == [kind |-> "nan", halves |-> 0]
PosInf == [kind |-> "inf", halves |-> 0]
NegInf == [kind |-> "neginf", halves |-> 0]

DepthScalars(T) ==
    {Finite(h) : h \in (2 * MinValue(T) - 2 * SampleRadius) .. (2 * MaxValue(T) + 2 * SampleRadius)}
        \cup {NaN, PosInf, NegInf}

\* The scalar with its fractional part dropped, as a float-to-integer cast
\* rounds (toward zero).
Truncated(s) ==
    IF s.halves >= 0 THEN s.halves \div 2 ELSE 0 - ((0 - s.halves) \div 2)

\* The scalar is one of the values of T, or lies between two of them.
WithinRange(T, s) ==
    s.kind = "finite" /\ 2 * MinValue(T) <= s.halves /\ s.halves <= 2 * MaxValue(T)

\* The scalar lies outside of T's values but its truncation is one of them
\* (for an i8, 127.5 and -128.5).
TruncatesIntoRange(T, s) ==
    /\ s.kind = "finite"
    /\ ~WithinRange(T, s)
    /\ 2 * MinValue(T) - 2 < s.halves
    /\ s.halves < 2 * MaxValue(T) + 2

Some(v) == [some |-> TRUE, value |-> v]
None == [some |-> FALSE, value |-> 0]

\* <$t as NumCast>::from(n), of the num_traits crate, as the set of the
\* Options it can return. The crate is a dependency whose version the
\* sources do not fix: its releases either check the range of the scalar
\* (None when out of range; the earliest of these also refuse a scalar that
\* only truncates into the range) or cast with `as` (always Some; out of
\* range, an unspecified value of the type on older compilers and the
\* nearest bound on newer ones).
NumCast_from(T, s) ==
    IF WithinRange(T, s) THEN {Some(Truncated(s))}
    ELSE IF TruncatesIntoRange(T, s) THEN {Some(Truncated(s)), None}
    ELSE {None} \cup {Some(v) : v \in ValuesOf(T)}

\* Option::expect("Invalid Cast"): the value, or a panic
expect(o) ==
    IF o.some THEN [kind |-> "value", value |-> o.value]
    ELSE [kind |-> "panic", value |-> 0]

\* from_scalar with the body of far()
from_scalar_Far(T, s) == {[kind |-> "value", value |-> MinValue(T)]}

\* from_scalar: the outcomes of NumCast::from(n).expect("Invalid Cast")
from_scalar(T, s) == {expect(o) : o \in NumCast_from(T, s)}

NoDepthOut == [kind |-> "none", value |-> 0]

DepthIdle ==
    /\ dT = I8
    /\ dScalar = Finite(0)
    /\ dCall = "none"
    /\ dOut = NoDepthOut

DepthInit ==
    /\ dT \in DepthTypes
    /\ dScalar \in DepthScalars(dT)
    /\ dCall = "none"
    /\ dOut = NoDepthOut

CallFromScalar ==
    /\ dCall = "none"
    /\ \E r \in from_scalar(dT, dScalar) : dOut' = r
    /\ dCall' = "from_scalar"
    /\ UNCHANGED <<dT, dScalar, stencilVars, coordVars, texVars, runVars>>

-----------------------------------------------------------------------------
(* Specifications *)

DepthSpecInit == DepthInit /\ StencilIdle /\ CoordIdle /\ TexIdle /\ RunIdle
DepthSpec == DepthSpecInit /\ [][CallFromScalar]_vars

StencilSpecInit == StencilInit /\ CoordIdle /\ TexIdle /\ RunIdle /\ DepthIdle
StencilNext == CallOp \/ CallTest
StencilSpec == StencilSpecInit /\ [][StencilNext]_vars

CoordSpecInit == CoordInit /\ StencilIdle /\ TexIdle /\ RunIdle /\ DepthIdle
CoordNext == CallFromIndex \/ CallIntoIndex
CoordSpec == CoordSpecInit /\ [][CoordNext]_vars

TextureSpecInit == TexInit /\ StencilIdle /\ CoordIdle /\ RunIdle /\ DepthIdle
TextureNext == SetPixel \/ SetDepth \/ SetStencil \/ Clear
TextureSpec == TextureSpecInit /\ [][TextureNext]_vars

\* FragmentShader::run on a constructed framebuffer
Init == RunInit /\ StencilIdle /\ CoordIdle /\ TexIdle /\ DepthIdle
Next ==
    \/ PlanStart
    \/ PlanOuter
    \/ PlanInner
    \/ \E w \in DOMAIN wpc : WorkerStep(w)
    \/ Join
Spec == Init /\ [][Next]_vars

\* The pool's threads are scheduled by the operating system: while some
\* worker can take a step, some worker takes one, and the scope's join
\* returns once it can. No worker is assumed to be scheduled in particular.
\* Progress is followed on the scene with the longest primitive streams.
FairInit == Init /\ scene = DepthScene
FairSpec ==
    /\ FairInit
    /\ [][Next]_vars
    /\ WF_vars(\E w \in DOMAIN wpc : WorkerStep(w))
    /\ WF_vars(Join)

-----------------------------------------------------------------------------
(* Claims about Coordinate (CoordSpec) *)

InDimensions(c, d) == c.x < d.width /\ c.y < d.height

\* The coordinates of d that come before c in row-major order.
RowMajorBefore(c, d) ==
    {e \in [x : 0 .. d.width - 1, y : 0 .. d.height - 1] :
        e.y < c.y \/ (e.y = c.y /\ e.x < c.x)}

\* C7: for width >= 1 and an index below the area, from_index followed by
\* into_index returns the index it started from; for a coordinate inside
\* the dimensions, into_index followed by from_index returns that
\* coordinate; and into_index numbers the coordinates in row-major order,
\* giving each the count of the coordinates before it, below the area.
C7_RoundTrip ==
    /\ ( /\ cOrig.kind = "index"
         /\ cDims.width >= 1
         /\ cOrig.index < area(cDims)
         /\ cCalls = <<"from_index", "into_index">> )
       => (cHave = "index" /\ cIndex = cOrig.index /\ InDimensions(cCoord, cDims))
    /\ ( /\ cOrig.kind = "coord"
         /\ InDimensions(cOrig.coord, cDims)
         /\ cCalls = <<"into_index", "from_index">> )
       => (cHave = "coord" /\ cCoord = cOrig.coord)
    /\ ( /\ cOrig.kind = "coord"
         /\ InDimensions(cOrig.coord, cDims)
         /\ cCalls = <<"into_index">> )
       => /\ cHave = "index"
          /\ cIndex = Cardinality(RowMajorBefore(cOrig.coord, cDims))
          /\ cIndex < area(cDims)

C7_Witness ==
    /\ cOrig.kind = "coord"
    /\ cOrig.coord = Coordinate_new(1, 2)
    /\ cDims = [width |-> 2, height |-> 3]
    /\ cCalls = <<"into_index", "from_index">>
    /\ cCoord = Coordinate_new(1, 2)
    /\ cIndex = 5

-----------------------------------------------------------------------------
(* Claims about the stencil engine (StencilSpec) *)

BitOf(T, v, k) == (ToBits(T, v) \div Pow2(k)) % 2

IsBitwiseNot(T, r, v) ==
    /\ r \in ValuesOf(T)
    /\ \A k \in 0 .. (T.bits - 1) : BitOf(T, r, k) # BitOf(T, v, k)

\* C8: Keep returns the stored value, Invert its bitwise complement, Zero
\* returns zero and Replace returns the incoming mask, for every integer
\* stencil type and all stored values and masks.
C8_BasicOps ==
    sCall.fn = "op" =>
        /\ sCall.variant = "Keep" => sOut = sValue
        /\ sCall.variant = "Invert" => IsBitwiseNot(sT, sOut, sValue)
        /\ sCall.variant = "Zero" => sOut = 0
        /\ sCall.variant = "Replace" => sOut = sMask

C8_Witness ==
    /\ sCall.fn = "op"
    /\ sCall.variant = "Replace"
    /\ sT = I8
    /\ sValue = 5
    /\ sMask = -127
    /\ sOut = -127

\* C9: Increment at T::MAX gives T::MIN when wrapping and stays T::MAX when
\* saturating; Decrement at T::MIN gives T::MAX when wrapping and stays
\* T::MIN when saturating; at every other value both variants move the
\* stored value by exactly one.
C9_WrapSaturate ==
    (sCall.fn = "op" /\ sCall.variant \in {"Increment", "Decrement"}) =>
        /\ (sCall.variant = "Increment" /\ sValue = MaxValue(sT)) =>
               sOut = (IF sCall.wrap THEN MinValue(sT) ELSE MaxValue(sT))
        /\ (sCall.variant = "Decrement" /\ sValue = MinValue(sT)) =>
               sOut = (IF sCall.wrap THEN MaxValue(sT) ELSE MinValue(sT))
        /\ (sCall.variant = "Increment" /\ sValue # MaxValue(sT)) => sOut = sValue + 1
        /\ (sCall.variant = "Decrement" /\ sValue # MinValue(sT)) => sOut = sValue - 1

C9_Witness ==
    /\ sCall = [fn |-> "op", variant |-> "Increment", wrap |-> TRUE]
    /\ sT = I16
    /\ sValue = MaxValue(I16)
    /\ sOut = MinValue(I16)

\* C10: Always passes and Never fails whatever the operands; the six
\* comparison variants return mask < value, mask <= value, mask > value,
\* mask >= value, mask = value and mask # value.
C10_TestTable ==
    sCall.fn = "test" =>
        /\ sCall.variant = "Always" => sOut = TRUE
        /\ sCall.variant = "Never" => sOut = FALSE
        /\ sCall.variant = "LessThan" => (sOut <=> sMask < sValue)
        /\ sCall.variant = "LessThanEq" => (sOut <=> sMask <= sValue)
        /\ sCall.variant = "GreaterThan" => (sOut <=> sMask > sValue)
        /\ sCall.variant = "GreaterThanEq" => (sOut <=> sMask >= sValue)
        /\ sCall.variant = "Equal" => (sOut <=> sMask = sValue)
        /\ sCall.variant = "NotEqual" => (sOut <=> sMask # sValue)

C10_Witness ==
    /\ sCall.fn = "test"
    /\ sCall.variant = "LessThanEq"
    /\ sT = U8
    /\ sValue = 2
    /\ sMask = 2
    /\ sOut = TRUE

\* C11 as stated, and as the variants' doc comments say: with value the
\* incoming (new) stencil value and mask the stored (previous) cell,
\* LessThan passes exactly when new < previous, GreaterThan when
\* new > previous, LessThanEq when new <= previous, GreaterThanEq when
\* new >= previous.
C11_NewAgainstPrevious ==
    sCall.fn = "test" =>
        /\ sCall.variant = "LessThan" => (sOut <=> sValue < sMask)
        /\ sCall.variant = "GreaterThan" => (sOut <=> sValue > sMask)
        /\ sCall.variant = "LessThanEq" => (sOut <=> sValue <= sMask)
        /\ sCall.variant = "GreaterThanEq" => (sOut <=> sValue >= sMask)

-----------------------------------------------------------------------------
(* Claims about the texture buffer (TextureSpec) *)

\* C6: after clear(c), whatever writes came before it, every cell of every
\* colour plane holds that plane's component of c, every depth cell holds
\* Depth::far() and every stencil cell holds Stencil::default().
C6_ClearResets ==
    tbLast.op = "clear" =>
        /\ \A n \in PlaneNames : \A k \in 1 .. area(dimensions_of(tb)) :
               /\ k \in DOMAIN tb.planes[n]
               /\ tb.planes[n][k] = tbLast.color[n]
        /\ \A k \in 1 .. area(dimensions_of(tb)) :
               /\ k \in DOMAIN tb.internal_buffer
               /\ tb.internal_buffer[k][1] = MinValue(DepthType)
               /\ tb.internal_buffer[k][2] = 0

C6_Witness ==
    /\ tbLast.op = "clear"
    /\ tbLast.color = [color |-> 1, normal |-> 2]
    /\ area(dimensions_of(tb)) = 4
    /\ tbCount = 2
    /\ get_stencil_unchecked(tbLast.before, 3) = MaxValue(StencilType)

\* C15: in every state reached from new() or with_dimensions(d) by clears
\* and pixel, depth and stencil writes, the depth/stencil array and every
\* colour plane have width * height entries, and an operation leaves
\* dimensions() as it was; new() has dimensions (0, 0) and empty arrays.
C15_SizeInvariant ==
    /\ Len(tb.internal_buffer) = dimensions_of(tb).width * dimensions_of(tb).height
    /\ \A n \in PlaneNames : Len(tb.planes[n]) = Len(tb.internal_buffer)
    /\ tbLast.op # "none" => dimensions_of(tb) = dimensions_of(tbLast.before)
    /\ dimensions_of(new) = [width |-> 0, height |-> 0]
    /\ new.internal_buffer = <<>>
    /\ \A n \in PlaneNames : new.planes[n] = <<>>

\* A 2x1 buffer after a pixel write and a depth write.
C15_Witness ==
    /\ tbLast.op = "set_depth"
    /\ tbCount = 2
    /\ dimensions_of(tb) = [width |-> 2, height |-> 1]
    /\ tbLast.before.planes # with_dimensions(dimensions_of(tb)).planes
    /\ Len(tb.internal_buffer) = 2

\* C16: set_pixel_unchecked(i, colour) with i below the area stores each
\* component of the tuple in its own plane at index i, so that
\* get_pixel_unchecked(i) returns the tuple, and leaves every other cell of
\* every plane and every depth and stencil cell as it was.
C16_SetPixel ==
    tbLast.op = "set_pixel" =>
        /\ tbLast.index < area(dimensions_of(tb))
        /\ \A n \in PlaneNames : tb.planes[n][tbLast.index + 1] = tbLast.color[n]
        /\ get_pixel_unchecked(tb, tbLast.index) = tbLast.color
        /\ \A n \in PlaneNames : \A k \in DOMAIN tb.planes[n] :
               k # tbLast.index + 1 => tb.planes[n][k] = tbLast.before.planes[n][k]
        /\ \A k \in 0 .. area(dimensions_of(tb)) - 1 :
               /\ get_depth_unchecked(tb, k) = get_depth_unchecked(tbLast.before, k)
               /\ get_stencil_unchecked(tb, k) = get_stencil_unchecked(tbLast.before, k)

\* The last pixel of a 2x2 buffer is written after a depth write to it.
C16_Witness ==
    /\ tbLast.op = "set_pixel"
    /\ tbLast.index = 3
    /\ tbLast.color = Red
    /\ area(dimensions_of(tb)) = 4
    /\ get_depth_unchecked(tbLast.before, 3) = 1
    /\ get_depth_unchecked(tb, 3) = 1
    /\ get_pixel_unchecked(tb, 0) = [n \in PlaneNames |-> Color_empty]

-----------------------------------------------------------------------------
(* Claims about FragmentShader::run (Spec, FairSpec) *)

Dispatched == pc \in {"scoped", "returned"}

\* The pixels of a tile read as [min.x, max.x) x [min.y, max.y).
TileRect(tile) ==
    {c \in [x : tile[1].x .. tile[2].x - 1, y : tile[1].y .. tile[2].y - 1] : TRUE}

InTile(c, tile) ==
    /\ tile[1].x <= c.x /\ c.x < tile[2].x
    /\ tile[1].y <= c.y /\ c.y < tile[2].y

TilesHolding(c) == {t \in 1 .. Len(tiles) : InTile(c, tiles[t])}

AllPrimitives == [k \in 1 .. Len(PrimitiveOrder(scene)) |-> k]

\* C1: under every interleaving of the workers' fetch-and-add steps, no
\* tile index is fetched by two workers or twice, every index below the
\* counter (and below |tiles|) has been fetched, a worker holding a tile
\* holds an index below |tiles| that it alone fetched, and when run()
\* returns every tile was fetched once and rasterized once.
C1_EachTileClaimedOnce ==
    Dispatched =>
        /\ \A t \in 1 .. Len(tiles) :
               /\ Len(claimed[t]) <= 1
               /\ (t - 1 < i) => Len(claimed[t]) = 1
               /\ (t - 1 >= i) => Len(claimed[t]) = 0
        /\ \A w \in DOMAIN wpc :
               wpc[w] = "tile" =>
                   /\ wtile[w] < Len(tiles)
                   /\ claimed[wtile[w] + 1] = <<w>>
        /\ \A w \in DOMAIN wpc : wpc[w] = "exit" => wtile[w] >= Len(tiles)
        /\ pc = "returned" =>
               \A t \in 1 .. Len(tiles) :
                   Len(claimed[t]) = 1 /\ rastered[t] = AllPrimitives

C1_Witness ==
    /\ pc = "returned"
    /\ thread_count = 2
    /\ Len(tiles) = 4
    /\ claimed = << <<2>>, <<1>>, <<1>>, <<2>> >>

\* C2 as stated: every pixel of the framebuffer belongs to exactly one
\* tile, and no pixel is written by two different workers.
C2_EveryPixelInExactlyOneTile ==
    /\ Dispatched =>
           \A c \in Surface(dimensions_of(fb)) : Cardinality(TilesHolding(c)) = 1
    /\ \A k \in DOMAIN writers : Cardinality(writers[k]) <= 1

\* C2 as amended: every pixel of the framebuffer belongs to at most one
\* tile (the pixels of the last row and the last column belong to none),
\* and in no reachable state have two different workers written the same
\* pixel index.
C2_OneWriterPerPixel ==
    /\ \A c \in Surface(dimensions_of(fb)) : Cardinality(TilesHolding(c)) <= 1
    /\ Dispatched =>
           \A c \in Surface(dimensions_of(fb)) :
               (c.x = dimensions_of(fb).width - 1 \/ c.y = dimensions_of(fb).height - 1)
                   => TilesHolding(c) = {}
    /\ \A k \in DOMAIN writers : Cardinality(writers[k]) <= 1

C2_Witness ==
    /\ pc = "scoped"
    /\ \E k1, k2 \in DOMAIN writers : writers[k1] = {1} /\ writers[k2] = {2}
    /\ \E w \in DOMAIN wpc : wpc[w] = "tile"

AllTilesProcessed == \A t \in 1 .. Len(tiles) : rastered[t] = AllPrimitives

\* C3: once the workers are dispatched, run() eventually returns, and it
\* returns with every worker out of its loop on a fetched value >= |tiles|
\* and every tile rasterized against every primitive.
C3_RunsToCompletion ==
    pc = "scoped" ~>
        /\ pc = "returned"
        /\ \A w \in DOMAIN wpc : wpc[w] = "exit" /\ wtile[w] >= Len(tiles)
        /\ AllTilesProcessed

C3_Witness ==
    /\ pc = "returned"
    /\ thread_count = 2
    /\ Len(tiles) = 4
    /\ Len(PrimitiveOrder(scene)) = 3
    /\ AllTilesProcessed
    /\ \A w \in DOMAIN wpc : wpc[w] = "exit"

\* What one worker taking the tiles in list order leaves in the framebuffer.
RECURSIVE RasterizeFrom(_, _, _, _, _)
RasterizeFrom(buf, tile, order, k, st) ==
    IF k > Len(order) THEN buf
    ELSE RasterizeFrom(Rasterize(buf, tile, order[k], st), tile, order, k + 1, st)

RECURSIVE TilesFrom(_, _, _, _, _)
TilesFrom(buf, ts, t, order, st) ==
    IF t > Len(ts) THEN buf
    ELSE TilesFrom(RasterizeFrom(buf, ts[t], order, 1, st), ts, t + 1, order, st)

SequentialResult ==
    TilesFrom(InitialFb(scene, dimensions_of(fb)), tiles, 1, PrimitiveOrder(scene),
              scene.stencil)

\* C4: the framebuffer run() leaves is a function of the framebuffer it
\* started from, the primitive streams and the stencil configuration
\* alone: for every thread count and every interleaving of the tile claims
\* it is what one worker taking the tiles in list order leaves.
C4_Deterministic == pc = "returned" => fb = SequentialResult

C4_Witness ==
    /\ pc = "returned"
    /\ thread_count = 2
    /\ claimed = << <<2>>, <<1>>, <<1>>, <<2>> >>
    /\ scene.stencil.op.variant = "Invert"
    /\ fb # InitialFb(scene, dimensions_of(fb))

CoveredSurface(d) == [x : 0 .. d.width - 2, y : 0 .. d.height - 2]

\* C5 as stated: for any Dimensions and any tile_size, the union of the
\* tiles the planner produces is the covered surface [0, W-1) x [0, H-1),
\* and no two tiles share a pixel.
C5_TilesPartitionSurface ==
    Dispatched =>
           /\ UNION {TileRect(tiles[t]) : t \in 1 .. Len(tiles)}
                  = CoveredSurface(dimensions_of(fb))
           /\ \A t, u \in 1 .. Len(tiles) :
                  t # u => TileRect(tiles[t]) \cap TileRect(tiles[u]) = {}

-----------------------------------------------------------------------------
(* Claims about the per-pixel pipeline as run() applies it (Spec) *)

\* The step is worker w rasterizing the next primitive of the streams on its tile.
StepRasterizes(w) ==
    /\ pc = "scoped"
    /\ w \in DOMAIN wpc
    /\ wpc[w] = "tile"
    /\ wprim'[w] = wprim[w] + 1

StepPrim(w) == PrimitiveOrder(scene)[wprim[w]]

StepVisited(w) == TilePixels(tiles[wtile[w] + 1], StepPrim(w), dimensions_of(fb))

StencilPasses(k) ==
    StencilTest_test(scene.stencil.test, scene.stencil.value, get_stencil_unchecked(fb, k))

\* C12: at a visited pixel whose stencil test passed, a fragment whose depth
\* is not greater than the stored depth leaves the colour and the depth of
\* the pixel as they were, and a fragment with a greater depth that is not
\* discarded stores its depth and its colour; on a freshly constructed
\* buffer, after primitive A (depth 0) and then primitive B (depth -1) the
\* pixels B covers hold A's colour and depth.
C12_DepthTest ==
    [][\A w \in 1 .. MaxThreads :
          StepRasterizes(w) =>
              /\ \A k \in StepVisited(w) :
                     StencilPasses(k) =>
                         /\ ~(StepPrim(w).depth > get_depth_unchecked(fb, k)) =>
                                /\ get_pixel_unchecked(fb', k) = get_pixel_unchecked(fb, k)
                                /\ get_depth_unchecked(fb', k) = get_depth_unchecked(fb, k)
                         /\ (StepPrim(w).depth > get_depth_unchecked(fb, k)
                                 /\ ~StepPrim(w).discard) =>
                                /\ get_pixel_unchecked(fb', k) = StepPrim(w).color
                                /\ get_depth_unchecked(fb', k) = StepPrim(w).depth
              /\ (scene = DepthScene /\ wprim[w] = 2) =>
                     \A k \in StepVisited(w) :
                         /\ get_pixel_unchecked(fb', k) = Red
                         /\ get_depth_unchecked(fb', k) = 0]_vars

\* A worker has rasterized A and then B on a tile that holds pixel (1,1),
\* which both cover: the pixel holds A's colour and depth.
C12_Witness ==
    /\ scene = DepthScene
    /\ dimensions_of(fb) = [width |-> 3, height |-> 3]
    /\ \E w \in DOMAIN wpc :
           /\ wpc[w] = "tile"
           /\ wprim[w] = 3
           /\ InTile(Coordinate_new(1, 1), tiles[wtile[w] + 1])
    /\ get_pixel_unchecked(fb, 4) = Red
    /\ get_depth_unchecked(fb, 4) = 0
    /\ -1 > Depth_far(DepthType)

AllIndices == 0 .. area(dimensions_of(fb)) - 1

-----------------------------------------------------------------------------
(* Claims about Depth::from_scalar (DepthSpec) *)

\* The scalar has no value of T to stand for: not a number, infinite, or
\* outside of T's values even after truncation.
Unrepresentable(T, s) == ~WithinRange(T, s) /\ ~TruncatesIntoRange(T, s)

-----------------------------------------------------------------------------
(* Claims about the tile planner (Spec) *)

\* C17: whatever the Dimensions (W, H), a zero extent included, and whatever
\* the tile_size, every tile of the list has min.x < max.x <= W - 1 and
\* min.y < max.y <= H - 1, with max = min(min + tile_size, extent - 1).
C17_TilesWellFormed ==
    \A t \in 1 .. Len(tiles) :
        LET d == dimensions_of(fb)
            lo == tiles[t][1]
            hi == tiles[t][2]
        IN /\ lo.x < hi.x /\ hi.x <= d.width - 1
           /\ lo.y < hi.y /\ hi.y <= d.height - 1
           /\ hi.x = min(lo.x + tile_size.width, d.width - 1)
           /\ hi.y = min(lo.y + tile_size.height, d.height - 1)

\* C18: whatever the Dimensions and the tile_size, every iteration of the
\* inner loop leaves x greater than it found it, and every iteration of the
\* outer loop leaves y greater than it found it.
C18_LoopsAdvance ==
    [][/\ (pc = "inner" /\ x < xmax /\ pc' = "inner") => x' > x
       /\ (pc = "inner" /\ ~(x < xmax) /\ pc' = "outer") => y' > y]_vars

-----------------------------------------------------------------------------
(* Claims about the order of the primitives within a tile (Spec) *)

\* The streams in the order the claim gives: indexed triangles, generated
\* triangles, indexed lines, generated lines, indexed points, generated
\* points, each in sequence order.
StreamOrder(sc) ==
    (IF sc.kind = "triangle" THEN sc.indexed ELSE <<>>)
    \o sc.generated.tris
    \o (IF sc.kind = "line" THEN sc.indexed ELSE <<>>)
    \o sc.generated.lines
    \o (IF sc.kind = "point" THEN sc.indexed ELSE <<>>)
    \o sc.generated.points

\* The primitives applied to tile t so far, in the order of application.
Applied(t) == [k \in DOMAIN rastered[t] |-> PrimitiveOrder(scene)[rastered[t][k]]]

\* C19: under every interleaving, the primitives applied to a tile are an
\* initial part of the streams in stream order, applied by the one worker
\* that claimed the tile, and a worker that is no longer on a tile it
\* claimed has applied every primitive to it.
C19_StreamOrderWithinTile ==
    Dispatched =>
        \A t \in 1 .. Len(tiles) :
            /\ Len(rastered[t]) <= Len(StreamOrder(scene))
            /\ \A k \in 1 .. Len(rastered[t]) : Applied(t)[k] = StreamOrder(scene)[k]
            /\ rastered[t] # <<>> => Len(claimed[t]) = 1
            /\ \A w \in DOMAIN wpc :
                   (claimed[t] = <<w>>) =>
                       \/ /\ wpc[w] = "tile"
                          /\ wtile[w] = t - 1
                          /\ Len(rastered[t]) = wprim[w] - 1
                       \/ Len(rastered[t]) = Len(StreamOrder(scene))

\* Two workers are on two tiles of the depth scene: one has applied the
\* indexed quad and the generated triangle and has the generated point left,
\* the other has applied the quad only, and a third tile is finished.
C19_Witness ==
    /\ pc = "scoped"
    /\ scene = DepthScene
    /\ thread_count = 2
    /\ Len(tiles) = 4
    /\ wpc = <<"tile", "tile">>
    /\ rastered[wtile[1] + 1] = <<1, 2>>
    /\ rastered[wtile[2] + 1] = <<1>>
    /\ \E t \in 1 .. Len(tiles) : rastered[t] = <<1, 2, 3>>

-----------------------------------------------------------------------------
(* Claims about the stored depth over a run (Spec) *)

=============================================================================
